---- MODULE Spec2Model ----
(***************************************************************************)
(* Comic-generation job pipeline of PixelPanels.                           *)
(*                                                                         *)
(* The repository holds two revisions of the pipeline:                     *)
(*   - src/app/routes/comic_routes.py  (Comic record in the relational     *)
(*     store + in-memory `jobs` map), here app = "routes";                 *)
(*   - src/backend_code.py             (in-memory `job_progress` map       *)
(*     only), here app = "legacy".                                         *)
(* One behaviour of the model is one run of one of the two servers.        *)
(*                                                                         *)
(* Four specifications share the variables:                                *)
(*   - Spec / FairSpec: the generation pipeline of both revisions;         *)
(*   - InteractionSpec: like_comic and record_view                         *)
(*     (src/app/routes/interaction_routes.py), interleaved at their        *)
(*     round trips to the relational store;                                *)
(*   - ExploreSpec: the listings of src/app/routes/explore_routes.py.      *)
(*   - StorageSpec: BlobContainerClientSingleton (src/app/database.py),    *)
(*     the lifespan that opens and closes it, and the blob uploads.        *)
(*                                                                         *)
(* Every external collaborator (AI provider, blob store, relational store, *)
(* local file system) is a black box whose call either returns or raises.  *)
(* Texts are sequences of parts, so that "the message embeds the error     *)
(* text" is a statement about the parts of the message.                    *)
(***************************************************************************)
EXTENDS Integers, Sequences, FiniteSets, TLC

\* Largest number of panel descriptions the decomposition call returns.
MaxPanels == 2

\* Job identifiers handed out by uuid4().
JobIds == {"j1", "j2"}

\* ComicStatus (src/app/models/comic_models.py)
PENDING == "pending"
GENERATING_STORY == "generating_story"
GENERATING_PANELS == "generating_panels"
GENERATING_IMAGES == "generating_images"
GENERATING_AUDIO == "generating_audio"
COMPLETED == "completed"
FAILED == "failed"

ComicStatus ==
  {PENDING, GENERATING_STORY, GENERATING_PANELS, GENERATING_IMAGES,
   GENERATING_AUDIO, COMPLETED, FAILED}

\* Python's None.
None == "None"

\* The narrative text the story call returns.
Stories == {"story"}

VARIABLES
  app,          \* which server runs: "routes" or "legacy"
  pc,           \* per job id: position of its start call / background task
  comics,       \* relational store, committed Comic rows, keyed by id
  panelRows,    \* relational store, committed Panel rows
  blobs,        \* asset store: keys that hold a blob
  jobs,         \* comic_routes.py `jobs` map
  job_progress, \* backend_code.py `job_progress` map
  loc,          \* per job id: locals of process_comic_generation
  raised,       \* per job id: text of the exception the handler caught
  trail,        \* per job id: distinct status values its records took
  calls,        \* per job id: the adapter calls its task started, in order
  uix_comic_user, \* relational store: likes carries the unique constraint
  likes,        \* relational store, committed Like rows
  views,        \* relational store, committed View rows
  favoriteRows,    \* relational store, committed Favorite rows
  like_seq,     \* relational store: last primary key handed out for likes
  reqs,         \* per connection: the interaction request it is serving
  issued,       \* number of interaction requests received so far
  instance,     \* BlobContainerClientSingleton._instance
  created,      \* number of container clients constructed so far
  closes,       \* per container client: number of close() calls it received
  held,         \* per coroutine: what get_instance last returned to it
  life,         \* position of the lifespan of the application
  upc,          \* per coroutine: position in its upload
  request,      \* per coroutine: the upload it asked for last
  returned,     \* per coroutine: how its last upload ended
  container     \* asset store: the blobs of the container, name and bytes

\* State of the generation pipeline.
pipelineVars == <<pc, panelRows, blobs, jobs, job_progress, loc, raised, trail, calls>>

\* State of the interaction endpoints.
interactionVars == <<uix_comic_user, likes, views, favoriteRows, like_seq, reqs, issued>>

\* State of the container client and of the container it reaches.
storageVars == <<instance, created, closes, held, life, upc, request, returned, container>>

vars == <<app, comics, pipelineVars, interactionVars, storageVars>>

----------------------------------------------------------------------------
\* Python dictionaries: d.update(u)
Update(d, u) ==
  [k \in (DOMAIN d) \cup (DOMAIN u) |-> IF k \in DOMAIN u THEN u[k] ELSE d[k]]

EmptyDict == [k \in {} |-> None]

\* Append a status to a trail unless it is the value the record already has.
Visit(t, s) == IF t # << >> /\ t[Len(t)] = s THEN t ELSE Append(t, s)

\* The k-th element of the provider's breakdown.
PanelData(k) ==
  [image_description |-> <<"image_description", k>>,
   panel_text |-> <<"panel_text", k>>]

\* result.get("panels", []) for a breakdown of n panels
Breakdown(n) == [k \in 1..n |-> PanelData(k)]

InitLoc ==
  [story |-> None, panels_data |-> << >>, i |-> 0, panels |-> << >>, num_panels |-> 0]

\* Panel counts a generation request may carry.
PanelCounts == {0, 1, 20, 21}

\* StoryPrompt.num_panels of comic_models.py: Field(10, ge=1, le=20)
ValidNumPanels(n) == n >= 1 /\ n <= 20

\* StoryPrompt.num_panels of backend_code.py: Optional[int] = 10, any integer
LegacyValidNumPanels(n) == TRUE

\* Positions at which a task is inside a synchronous (not awaited) adapter
\* call: the event loop runs nothing else until the call returns.
BlockingCalls == {"r_in_breakdown", "r_in_breakdown2", "l_in_breakdown"}

\* The event loop can run a step of job j: no other task holds it.
EventLoopFree(j) == \A k \in JobIds \ {j} : pc[k] \notin BlockingCalls

\* The adapter call a task starts when it leaves position p, if any.
AdapterCallAt(p) ==
  CASE p \in {"r_story", "l_story"} -> "story"
    [] p \in {"r_breakdown", "r_breakdown2", "l_breakdown"} -> "decomposition"
    [] p \in {"r_image", "r_image2", "l_image"} -> "image"
    [] p = "r_upload" -> "upload_panel"
    [] p \in {"r_voice", "r_voice2", "l_voice"} -> "voiceover"
    [] p = "r_upload_audio" -> "upload_audio"
    [] OTHER -> None

\* The call log after a step taken from position p.
LogCall(log, p) == IF AdapterCallAt(p) = None THEN log ELSE Append(log, AdapterCallAt(p))

----------------------------------------------------------------------------
(* comic_routes.py                                                         *)

\* Keys under which the asset store holds a job's blobs.
PanelBlobKey(j, i) == <<"comics", j, "panel", i + 1>>
AudioBlobKey(j) == <<"comics", j, "voiceover.mp3">>

\* URL the asset store returns for a key.
BlobUrl(key) == <<"https://blob">> \o key

\* Variant: the 0-based loop index written as the sequence number.
PanelSequenceZeroBased(i) == i

\* sequence=i+1 of the Panel row built in iteration i (0-based)
PanelSequence(i) == i + 1

\* The Panel row of iteration i of the first image loop.
PanelRow(j, i, panel_data, blob_url) ==
  [comic_id |-> j,
   sequence |-> PanelSequence(i),
   text_content |-> panel_data.panel_text,
   description |-> panel_data.image_description,
   image_url |-> blob_url]

\* Panel(...).dict() of iteration i of the second image loop.
JobPanel(j, i, panel_data) ==
  [panel_number |-> i + 1,
   image_description |-> panel_data.image_description,
   panel_text |-> panel_data.panel_text,
   image_url |-> <<"/api/v1/comics/files", j, "images", i + 1>>]

\* The Comic row start_comic_generation commits.
NewComic ==
  [status |-> PENDING, story_text |-> None, data_info |-> EmptyDict,
   metadata |-> EmptyDict]

\* The jobs entry start_comic_generation registers.
NewJob(j) ==
  [status |-> PENDING,
   progress |-> 0,
   message |-> <<"Starting comic generation...">>,
   story |-> None,
   panels |-> << >>,
   project_id |-> j]

\* Variant: the handler records the message and leaves the status.
FailedFieldsNoStatus(e) ==
  [message |-> <<"Failed to generate comic: ">> \o e]

\* Fields the exception handler merges into the jobs entry.
FailedFields(e) ==
  [status |-> FAILED, message |-> <<"Failed to generate comic: ">> \o e]

\* Variant: the handler also marks the Comic row, whatever its status.
HandlerComicFailed(c) == [c EXCEPT !.status = FAILED]

\* Variant: the handler undoes what the earlier stages wrote to the Comic row.
HandlerComicRollback(c) == [c EXCEPT !.story_text = None, !.data_info = EmptyDict]

\* What the exception handler does to the Comic row: nothing.
HandlerComic(c) == c

\* Variant: the last commit writes the status of the audio stage.
FinalStatusStale == GENERATING_AUDIO

\* Status written by the last commit of the run.
FinalStatus == COMPLETED

\* Variant: the task is scheduled without the entry being registered.
RegisterNothing(m, j, entry) == m

\* jobs[job_id] = {...}
Register(m, j, entry) == (j :> entry) @@ m

\* POST /generate
RStart(j) ==
  /\ app = "routes"
  /\ pc[j] = "idle"
  /\ \E n \in PanelCounts :
       /\ loc' = [loc EXCEPT ![j].num_panels = n]
       /\ \/ \* the body does not validate as StoryPrompt: HTTP 422, handler not run
             /\ ~ValidNumPanels(n)
             /\ pc' = [pc EXCEPT ![j] = "rejected"]
             /\ UNCHANGED <<comics, jobs, trail>>
          \/ /\ ValidNumPanels(n)
             /\ comics' = (j :> NewComic) @@ comics
             /\ jobs' = Register(jobs, j, NewJob(j))
             /\ pc' = [pc EXCEPT ![j] = "r_dirs"]
             /\ trail' = [trail EXCEPT ![j] = [job |-> <<PENDING>>, comic |-> <<PENDING>>]]
          \/ \* Comic(...) or db.commit() raises: HTTP 500, nothing registered
             /\ ValidNumPanels(n)
             /\ pc' = [pc EXCEPT ![j] = "start_failed"]
             /\ UNCHANGED <<comics, jobs, trail>>
  /\ EventLoopFree(j)
  /\ UNCHANGED <<app, panelRows, blobs, job_progress, raised, calls>>

\* except Exception as e: ... raise
RHandler(j, e, jobsNow, comicsNow) ==
  /\ jobs' = IF j \in DOMAIN jobsNow
             THEN [jobsNow EXCEPT ![j] = Update(@, FailedFields(e))]
             ELSE jobsNow
  /\ comics' = [comicsNow EXCEPT ![j] = HandlerComic(@)]
  /\ trail' = [trail EXCEPT ![j] =
                 [job |-> IF j \in DOMAIN jobs' THEN Visit(@.job, jobs'[j].status) ELSE @.job,
                  comic |-> Visit(@.comic, comics'[j].status)]]
  /\ raised' = [raised EXCEPT ![j] = e]
  /\ loc' = [loc EXCEPT ![j] = InitLoc]
  /\ pc' = [pc EXCEPT ![j] = "failed"]

\* A step that raises before it changed anything.
RRaise(j, e) ==
  /\ RHandler(j, e, jobs, comics)
  /\ UNCHANGED <<app, panelRows, blobs, job_progress>>

\* A step that returns and changes only locals.
RGoto(j, next, newloc) ==
  /\ pc' = [pc EXCEPT ![j] = next]
  /\ loc' = [loc EXCEPT ![j] = newloc]
  /\ UNCHANGED <<app, comics, panelRows, blobs, jobs, job_progress, raised, trail>>

\* A step that commits a change of the Comic row.
RCommitComic(j, next, newcomic) ==
  /\ comics' = [comics EXCEPT ![j] = newcomic]
  /\ trail' = [trail EXCEPT ![j].comic = Visit(@, newcomic.status)]
  /\ pc' = [pc EXCEPT ![j] = next]
  /\ UNCHANGED <<app, panelRows, blobs, jobs, job_progress, loc, raised>>

\* A step that merges fields into the jobs entry.
RUpdateJob(j, next, fields, newloc) ==
  /\ jobs' = [jobs EXCEPT ![j] = Update(@, fields)]
  /\ trail' = [trail EXCEPT ![j].job = Visit(@, jobs'[j].status)]
  /\ pc' = [pc EXCEPT ![j] = next]
  /\ loc' = [loc EXCEPT ![j] = newloc]
  /\ UNCHANGED <<app, comics, panelRows, blobs, job_progress, raised>>

\* create_project_dirs(job_id)
RDirs(j) ==
  /\ pc[j] = "r_dirs"
  /\ \/ RGoto(j, "r_story", loc[j])
     \/ RRaise(j, <<"create_project_dirs">>)

\* Step 1: story = await OpenAIService.generate_story(...)
RStory(j) ==
  /\ pc[j] = "r_story"
  /\ \/ \E s \in Stories : RGoto(j, "r_commit_story", [loc[j] EXCEPT !.story = s])
     \/ RRaise(j, <<"generate_story">>)

\* comic.story_text = story; comic.status = GENERATING_IMAGES; db.commit()
RCommitStory(j) ==
  /\ pc[j] = "r_commit_story"
  /\ \/ RCommitComic(j, "r_breakdown",
          [comics[j] EXCEPT !.story_text = loc[j].story, !.status = GENERATING_IMAGES])
     \/ RRaise(j, <<"commit_story">>)

\* Step 2: the task enters OpenAIService.break_story_into_panels(...), a
\* synchronous call
RBreakdownCall(j) ==
  /\ pc[j] = "r_breakdown"
  /\ RGoto(j, "r_in_breakdown", loc[j])

\* Step 2: panels_data = OpenAIService.break_story_into_panels(...) returns or raises
RBreakdown(j) ==
  /\ pc[j] = "r_in_breakdown"
  /\ \/ \E n \in 0..MaxPanels :
          RGoto(j, "r_commit_breakdown", [loc[j] EXCEPT !.panels_data = Breakdown(n)])
     \/ RRaise(j, <<"break_story_into_panels">>)

\* Where the first image loop goes at index i.
RLoopAt(j, i) == IF i < Len(loc[j].panels_data) THEN "r_image" ELSE "r_voice"

\* comic.data_info['panels_data'] = panels_data; db.commit()
RCommitBreakdown(j) ==
  /\ pc[j] = "r_commit_breakdown"
  /\ \/ /\ RCommitComic(j, RLoopAt(j, 0),
             [comics[j] EXCEPT !.data_info =
                Update(@, [panels_data |-> loc[j].panels_data])])
     \/ RRaise(j, <<"commit_breakdown">>)

\* image_data = await OpenAIService.generate_pixel_art(...)
RImage(j) ==
  /\ pc[j] = "r_image"
  /\ \/ RGoto(j, "r_upload", loc[j])
     \/ RRaise(j, <<"generate_pixel_art">>)

\* blob_url = await ImageService.upload_to_blob_storage(image_data, image_path)
RUpload(j) ==
  /\ pc[j] = "r_upload"
  /\ \/ /\ blobs' = blobs \cup {PanelBlobKey(j, loc[j].i)}
        /\ pc' = [pc EXCEPT ![j] = "r_panel"]
        /\ UNCHANGED <<app, comics, panelRows, jobs, job_progress, loc, raised, trail>>
     \/ RRaise(j, <<"upload_to_blob_storage">>)

\* local copy; panel = Panel(...); db.add(panel); db.commit()
RPanel(j) ==
  /\ pc[j] = "r_panel"
  /\ \/ LET i == loc[j].i IN
        /\ panelRows' = panelRows \cup
             {PanelRow(j, i, loc[j].panels_data[i + 1], BlobUrl(PanelBlobKey(j, i)))}
        /\ pc' = [pc EXCEPT ![j] = RLoopAt(j, i + 1)]
        /\ loc' = [loc EXCEPT ![j].i = i + 1]
        /\ UNCHANGED <<app, comics, blobs, jobs, job_progress, raised, trail>>
     \/ RRaise(j, <<"commit_panel">>)

\* audio_data = await OpenAIService.generate_voiceover(story)
RVoice(j) ==
  /\ pc[j] = "r_voice"
  /\ \/ RGoto(j, "r_upload_audio", loc[j])
     \/ RRaise(j, <<"generate_voiceover">>)

\* audio_blob_url = await ImageService.upload_to_blob_storage(audio_data, audio_path)
RUploadAudio(j) ==
  /\ pc[j] = "r_upload_audio"
  /\ \/ /\ blobs' = blobs \cup {AudioBlobKey(j)}
        /\ pc' = [pc EXCEPT ![j] = "r_completed"]
        /\ UNCHANGED <<app, comics, panelRows, jobs, job_progress, loc, raised, trail>>
     \/ RRaise(j, <<"upload_audio">>)

\* local copy; comic.status = COMPLETED; comic.data_info.update(...); db.commit()
RCommitCompleted(j) ==
  /\ pc[j] = "r_completed"
  /\ \/ RCommitComic(j, "r_job_story",
          [comics[j] EXCEPT
             !.status = COMPLETED,
             !.data_info = Update(@, [audio_url |-> BlobUrl(AudioBlobKey(j)),
                                      completed_at |-> <<"utcnow">>])])
     \/ RRaise(j, <<"commit_completed">>)

\* jobs[job_id].update({"story": ..., "status": GENERATING_IMAGES, "progress": 2})
RJobStory(j) ==
  /\ pc[j] = "r_job_story"
  /\ RUpdateJob(j, "r_breakdown2",
       [story |-> loc[j].story,
        status |-> GENERATING_IMAGES,
        message |-> <<"Breaking story into panels...">>,
        progress |-> 2],
       loc[j])

\* Where the second image loop goes at index i.
RLoop2At(n, i) == IF i < n THEN "r_progress" ELSE "r_page"

\* Step 2 (again): the task enters OpenAIService.break_story_into_panels(...)
RBreakdown2Call(j) ==
  /\ pc[j] = "r_breakdown2"
  \* story_prompt.num_panels is read here for the last time
  /\ RGoto(j, "r_in_breakdown2", [loc[j] EXCEPT !.num_panels = 0])

\* Step 2 (again): panels_data = OpenAIService.break_story_into_panels(...) returns or raises
RBreakdown2(j) ==
  /\ pc[j] = "r_in_breakdown2"
  /\ \/ \E n \in 0..MaxPanels :
          RGoto(j, "r_save_story",
                [loc[j] EXCEPT !.panels_data = Breakdown(n), !.i = 0, !.panels = << >>])
     \/ RRaise(j, <<"break_story_into_panels">>)

\* json.dump(..., story.json)
RSaveStory(j) ==
  /\ pc[j] = "r_save_story"
  /\ \/ RGoto(j, RLoop2At(Len(loc[j].panels_data), 0), loc[j])
     \/ RRaise(j, <<"save_story">>)

\* jobs[job_id].update({"message": ..., "progress": 3 + i})
RProgress(j) ==
  /\ pc[j] = "r_progress"
  /\ RUpdateJob(j, "r_image2",
       [message |-> <<"Generating image for panel ", loc[j].i + 1, "/",
                      Len(loc[j].panels_data), "...">>,
        progress |-> 3 + loc[j].i],
       loc[j])

\* image_data = await OpenAIService.generate_pixel_art(...)
RImage2(j) ==
  /\ pc[j] = "r_image2"
  /\ \/ RGoto(j, "r_panel2", loc[j])
     \/ RRaise(j, <<"generate_pixel_art">>)

\* save image; panel = Panel(...); save panel json; jobs[job_id]["panels"] = [...]
RPanel2(j) ==
  /\ pc[j] = "r_panel2"
  /\ \/ LET i == loc[j].i
            ps == Append(loc[j].panels, JobPanel(j, i, loc[j].panels_data[i + 1]))
        IN RUpdateJob(j, RLoop2At(Len(loc[j].panels_data), i + 1),
                      [panels |-> ps],
                      [loc[j] EXCEPT !.i = i + 1, !.panels = ps])
     \/ RRaise(j, <<"save_panel">>)

\* Step 3: jobs[job_id].update({"progress": 4}); ImageService.create_comic_page(...)
RPage(j) ==
  /\ pc[j] = "r_page"
  /\ RUpdateJob(j, "r_create_page",
       [message |-> <<"Creating comic page...">>, progress |-> 4], loc[j])

RCreatePage(j) ==
  /\ pc[j] = "r_create_page"
  /\ \/ RGoto(j, "r_progress5", loc[j])
     \/ RRaise(j, <<"create_comic_page">>)

\* Step 4: jobs[job_id].update({"progress": 5}); generate_voiceover; write audio
RProgress5(j) ==
  /\ pc[j] = "r_progress5"
  /\ RUpdateJob(j, "r_voice2",
       [message |-> <<"Generating voiceover...">>, progress |-> 5], loc[j])

RVoice2(j) ==
  /\ pc[j] = "r_voice2"
  /\ \/ RGoto(j, "r_final", loc[j])
     \/ RRaise(j, <<"generate_voiceover">>)

\* comic = db.query(...).first(); comic.status = COMPLETED; comic.metadata.update(...); db.commit()
RFinal(j) ==
  /\ pc[j] = "r_final"
  /\ \/ RCommitComic(j, "r_job_done",
          [comics[j] EXCEPT
             !.status = FinalStatus,
             !.metadata = Update(@, [story |-> loc[j].story,
                                     comic_url |-> <<"/api/v1/comics/files", j, "output/comic.png">>,
                                     audio_url |-> <<"/api/v1/comics/files", j, "output/voiceover.mp3">>,
                                     final_url |-> <<"/comic", j>>])])
     \/ RRaise(j, <<"commit_final">>)

\* jobs[job_id].update({"status": COMPLETED, ...})
RJobDone(j) ==
  /\ pc[j] = "r_job_done"
  /\ RUpdateJob(j, "done",
       [status |-> COMPLETED,
        message |-> <<"Comic generation completed!">>,
        comic_url |-> <<"/api/v1/comics/files", j, "output/comic.png">>,
        audio_url |-> <<"/api/v1/comics/files", j, "output/voiceover.mp3">>,
        final_url |-> <<"/comic", j>>],
       InitLoc)

\* The background task of job j (comic_routes.py).
RRun(j) ==
  /\ EventLoopFree(j)
  /\ calls' = [calls EXCEPT ![j] = LogCall(@, pc[j])]
  /\ \/ RDirs(j) \/ RStory(j) \/ RCommitStory(j) \/ RBreakdownCall(j) \/ RBreakdown(j)
     \/ RCommitBreakdown(j) \/ RImage(j) \/ RUpload(j) \/ RPanel(j)
     \/ RVoice(j) \/ RUploadAudio(j) \/ RCommitCompleted(j) \/ RJobStory(j)
     \/ RBreakdown2Call(j) \/ RBreakdown2(j) \/ RSaveStory(j) \/ RProgress(j)
     \/ RImage2(j) \/ RPanel2(j) \/ RPage(j) \/ RCreatePage(j) \/ RProgress5(j)
     \/ RVoice2(j) \/ RFinal(j) \/ RJobDone(j)

\* Variant: an unknown id is answered as a pending job.
check_status_unknown_pending(j) ==
  IF j \notin DOMAIN comics
  THEN [code |-> 200, data |-> [status |-> PENDING]]
  ELSE [code |-> 200, data |-> [status |-> comics[j].status]]

\* GET /status/{job_id}
check_status(j) ==
  IF j \notin DOMAIN comics
  THEN [code |-> 404]
  ELSE [code |-> 200, data |-> [status |-> comics[j].status]]

\* GET /play/{job_id}
get_comic_data(j) ==
  IF j \notin DOMAIN jobs
  THEN [code |-> 404]
  ELSE LET job == jobs[j]
           panels == IF "panels" \in DOMAIN job THEN job.panels ELSE << >>
           withUrl == SelectSeq(panels, LAMBDA p : "image_url" \in DOMAIN p)
       IN [code |-> 200,
           data |-> [job_id |-> j,
                     panel_urls |-> [k \in 1..Len(withUrl) |-> withUrl[k].image_url],
                     audio_url |-> IF "audio_url" \in DOMAIN job THEN job.audio_url ELSE << >>]]

\* Variant: the last panel names a successor.
get_panel_past_end(j, panel_index) ==
  IF j \notin DOMAIN jobs
  THEN [code |-> 404]
  ELSE LET panels == IF "panels" \in DOMAIN jobs[j] THEN jobs[j].panels ELSE << >>
           total == Len(panels)
       IN IF panel_index < 1 \/ panel_index > total
          THEN [code |-> 400]
          ELSE LET panel == panels[panel_index]
                   panel_url == IF "image_url" \in DOMAIN panel /\ panel.image_url # << >>
                                THEN panel.image_url
                                ELSE IF "image_path" \in DOMAIN panel
                                     THEN panel.image_path ELSE << >>
               IN IF panel_url = << >>
                  THEN [code |-> 500]
                  ELSE [code |-> 200,
                        data |-> [job_id |-> j,
                                  panel_index |-> panel_index,
                                  panel_url |-> panel_url,
                                  prev_index |-> IF panel_index > 1
                                                 THEN panel_index - 1 ELSE 0,
                                  next_index |-> IF panel_index <= total
                                                 THEN panel_index + 1 ELSE 0,
                                  total_panels |-> total]]

\* GET /panel/{job_id}/{panel_index}
get_panel(j, panel_index) ==
  IF j \notin DOMAIN jobs
  THEN [code |-> 404]
  ELSE LET panels == IF "panels" \in DOMAIN jobs[j] THEN jobs[j].panels ELSE << >>
           total == Len(panels)
       IN IF panel_index < 1 \/ panel_index > total
          THEN [code |-> 400]
          ELSE LET panel == panels[panel_index]
                   panel_url == IF "image_url" \in DOMAIN panel /\ panel.image_url # << >>
                                THEN panel.image_url
                                ELSE IF "image_path" \in DOMAIN panel
                                     THEN panel.image_path ELSE << >>
               IN IF panel_url = << >>
                  THEN [code |-> 500]
                  ELSE [code |-> 200,
                        data |-> [job_id |-> j,
                                  panel_index |-> panel_index,
                                  panel_url |-> panel_url,
                                  prev_index |-> IF panel_index > 1
                                                 THEN panel_index - 1 ELSE 0,
                                  next_index |-> IF panel_index < total
                                                 THEN panel_index + 1 ELSE 0,
                                  total_panels |-> total]]

\* create_video_from_panels(job_id, job_data): the outcomes it may have.  It
\* raises when there is no panel or no panel with a readable "image_path", and
\* whenever a library call raises; otherwise it sets job_data["video_url"].
create_video_from_panels(j, job_data) ==
  LET panels == IF "panels" \in DOMAIN job_data THEN job_data.panels ELSE << >>
      readable == {k \in 1..Len(panels) : "image_path" \in DOMAIN panels[k]}
  IN {[raised |-> TRUE, job_data |-> job_data]}
     \cup (IF readable = {} THEN {}
           ELSE {[raised |-> FALSE,
                  job_data |-> Update(job_data,
                                      [video_url |-> <<"/static/videos", j>>])]})

\* GET /share/{job_id}: the answers it may give, each with the `jobs` map it
\* leaves.  The video file exists once create_video_from_panels has written it.
get_share_data(j) ==
  IF j \notin DOMAIN jobs
  THEN {[code |-> 404, jobs |-> jobs]}
  ELSE IF "video_url" \in DOMAIN jobs[j]
       THEN {[code |-> 200, jobs |-> jobs]}
       ELSE {[code |-> IF o.raised THEN 500 ELSE 200,
              jobs |-> [jobs EXCEPT ![j] = o.job_data]] :
               o \in create_video_from_panels(j, jobs[j])}

----------------------------------------------------------------------------
(* backend_code.py                                                         *)

\* Number of steps the legacy pipeline declares.
LegacyTotal == 6

\* Variant: the new dictionary is stored under every project id of the map.
update_progress_shared(jp, project_id, status, step, total, message, kwargs) ==
  [k \in (DOMAIN jp) \cup {project_id} |->
     Update([id |-> project_id,
             status |-> status,
             current_step |-> step,
             total_steps |-> total,
             message |-> message], kwargs)]

\* Variant: an update evicts the finished entries of the other projects.
update_progress_evicting(jp, project_id, status, step, total, message, kwargs) ==
  [k \in {project_id} \cup {p \in DOMAIN jp : ~(jp[p].status \in {"completed", "error"})} |->
     IF k = project_id
       THEN Update([id |-> project_id,
                    status |-> status,
                    current_step |-> step,
                    total_steps |-> total,
                    message |-> message], kwargs)
       ELSE jp[k]]

\* update_progress(project_id, status, step, total, message, **kwargs):
\* the entry is replaced by a new dictionary.
update_progress(jp, project_id, status, step, total, message, kwargs) ==
  (project_id :> Update([id |-> project_id,
                         status |-> status,
                         current_step |-> step,
                         total_steps |-> total,
                         message |-> message], kwargs)) @@ jp

\* str(e) of the HTTPException an adapter of backend_code.py raises
LegacyError(what, e) == <<"500: ", what, e>>

\* A step of the legacy task that writes the tracker.
LProgress(j, next, status, step, message, kwargs, newloc) ==
  /\ job_progress' = update_progress(job_progress, j, status, step, LegacyTotal, message, kwargs)
  /\ trail' = [trail EXCEPT ![j].job = Visit(@, status)]
  /\ pc' = [pc EXCEPT ![j] = next]
  /\ loc' = [loc EXCEPT ![j] = newloc]
  /\ UNCHANGED <<app, comics, panelRows, blobs, jobs, raised>>

\* A step of the legacy task that returns and changes only locals.
LGoto(j, next, newloc) ==
  /\ pc' = [pc EXCEPT ![j] = next]
  /\ loc' = [loc EXCEPT ![j] = newloc]
  /\ UNCHANGED <<app, comics, panelRows, blobs, jobs, job_progress, raised, trail>>

\* except Exception as e: update_progress(project_id, "error", 0, 6, f"Error: {str(e)}")
LRaise(j, e) ==
  /\ job_progress' = update_progress(job_progress, j, "error", 0, LegacyTotal,
                                     <<"Error: ">> \o e, EmptyDict)
  /\ trail' = [trail EXCEPT ![j].job = Visit(@, "error")]
  /\ raised' = [raised EXCEPT ![j] = e]
  /\ loc' = [loc EXCEPT ![j] = InitLoc]
  /\ pc' = [pc EXCEPT ![j] = "failed"]
  /\ UNCHANGED <<app, comics, panelRows, blobs, jobs>>

\* POST /generate-comic
LStart(j) ==
  /\ app = "legacy"
  /\ pc[j] = "idle"
  /\ \E n \in PanelCounts :
       /\ loc' = [loc EXCEPT ![j].num_panels = n]
       /\ \/ \* no panel count fails validation: the handler always runs
             /\ LegacyValidNumPanels(n)
             /\ job_progress' = update_progress(job_progress, j, "started", 0, LegacyTotal,
                                                <<"Starting comic generation...">>, EmptyDict)
             /\ trail' = [trail EXCEPT ![j].job = <<"started">>]
             /\ pc' = [pc EXCEPT ![j] = "l_p1"]
          \/ \* create_project_dirs raises: HTTP 500, nothing registered
             /\ LegacyValidNumPanels(n)
             /\ pc' = [pc EXCEPT ![j] = "start_failed"]
             /\ UNCHANGED <<job_progress, trail>>
  /\ EventLoopFree(j)
  /\ UNCHANGED <<app, comics, panelRows, blobs, jobs, raised, calls>>

\* Step 1: update_progress(..., "generating_story", 1, 6, ...)
LP1(j) ==
  /\ pc[j] = "l_p1"
  /\ LProgress(j, "l_story", "generating_story", 1, <<"Generating story...">>,
               EmptyDict, loc[j])

\* story = await generate_story(...)
LStory(j) ==
  /\ pc[j] = "l_story"
  /\ \/ \E s \in Stories : LGoto(j, "l_p2", [loc[j] EXCEPT !.story = s])
     \/ LRaise(j, LegacyError("Failed to generate story: ", "generate_story"))

\* Step 2: update_progress(..., "breaking_story", 2, 6, ..., story=story)
LP2(j) ==
  /\ pc[j] = "l_p2"
  /\ LProgress(j, "l_breakdown", "breaking_story", 2, <<"Breaking story into panels...">>,
               [story |-> loc[j].story], loc[j])

\* the task enters break_story_into_panels(story, num_panels), a synchronous call
LBreakdownCall(j) ==
  /\ pc[j] = "l_breakdown"
  \* story_prompt.num_panels is read here for the last time
  /\ LGoto(j, "l_in_breakdown", [loc[j] EXCEPT !.num_panels = 0])

\* panels = break_story_into_panels(story, story_prompt.num_panels) returns or raises
LBreakdown(j) ==
  /\ pc[j] = "l_in_breakdown"
  /\ \/ \E n \in 0..MaxPanels :
          LGoto(j, "l_p3", [loc[j] EXCEPT !.panels = Breakdown(n), !.i = 0])
     \/ LRaise(j, LegacyError("Failed to break story into panels: ", "break_story_into_panels"))

\* Where the legacy image loop goes at index i.
LLoopAt(n, i) == IF i < n THEN "l_image" ELSE "l_p4"

\* Step 3: update_progress(..., "generating_images", 3, 6, ..., story=story, panels=panels)
LP3(j) ==
  /\ pc[j] = "l_p3"
  /\ LProgress(j, LLoopAt(Len(loc[j].panels), 0), "generating_images", 3,
               <<"Generating panel images...">>,
               [story |-> loc[j].story, panels |-> loc[j].panels], loc[j])

\* panel_path = await generate_pixel_art(...); panels[i]["image_path"] = panel_path;
\* update_progress(..., "generating_images", 3, 6, ...)
LImage(j) ==
  /\ pc[j] = "l_image"
  /\ \/ LET i == loc[j].i
            ps == [loc[j].panels EXCEPT ![i + 1] =
                     Update(@, [image_path |-> <<"storage", j, "images", i + 1>>])]
        IN LProgress(j, LLoopAt(Len(ps), i + 1), "generating_images", 3,
                     <<"Generated image ", i + 1, " of ", Len(ps), "...">>,
                     [story |-> loc[j].story, panels |-> ps],
                     [loc[j] EXCEPT !.panels = ps, !.i = i + 1])
     \/ LRaise(j, LegacyError("Failed to generate pixel art: ", "generate_pixel_art"))

\* Step 4: update_progress(..., "creating_comic", 4, 6, ...)
LP4(j) ==
  /\ pc[j] = "l_p4"
  /\ LProgress(j, "l_page", "creating_comic", 4, <<"Creating comic book...">>,
               [story |-> loc[j].story, panels |-> loc[j].panels], loc[j])

\* comic_path = create_comic_page(project_id, panels)
LPage(j) ==
  /\ pc[j] = "l_page"
  /\ \/ LGoto(j, "l_p5", loc[j])
     \/ LRaise(j, LegacyError("Failed to create comic: ", "create_comic_page"))

\* Step 5: update_progress(..., "generating_audio", 5, 6, ...)
LP5(j) ==
  /\ pc[j] = "l_p5"
  /\ LProgress(j, "l_voice", "generating_audio", 5, <<"Generating voice over...">>,
               [story |-> loc[j].story, panels |-> loc[j].panels,
                comic_url |-> <<"/files", j, "output/comic.png">>], loc[j])

\* audio_path = await generate_voiceover(story, project_id)
LVoice(j) ==
  /\ pc[j] = "l_voice"
  /\ \/ LGoto(j, "l_p6", loc[j])
     \/ LRaise(j, LegacyError("Failed to generate voiceover: ", "generate_voiceover"))

\* Step 6: update_progress(..., "finalizing", 6, 6, ...)
LP6(j) ==
  /\ pc[j] = "l_p6"
  /\ LProgress(j, "l_final", "finalizing", 6, <<"Creating final output...">>,
               [story |-> loc[j].story, panels |-> loc[j].panels,
                comic_url |-> <<"/files", j, "output/comic.png">>,
                audio_url |-> <<"/files", j, "audio/voiceover.mp3">>], loc[j])

\* comic_path, audio_path = create_final_output(project_id)
LFinal(j) ==
  /\ pc[j] = "l_final"
  /\ \/ LGoto(j, "l_completed", loc[j])
     \/ LRaise(j, LegacyError("Failed to create final output: ", "create_final_output"))

\* update_progress(..., "completed", 6, 6, ...)
LCompleted(j) ==
  /\ pc[j] = "l_completed"
  /\ LProgress(j, "done", "completed", 6, <<"Comic generation completed!">>,
               [story |-> loc[j].story, panels |-> loc[j].panels,
                comic_url |-> <<"/files", j, "output/comic.png">>,
                audio_url |-> <<"/files", j, "audio/voiceover.mp3">>,
                final_url |-> <<"/files", j, "output/comic.png">>], InitLoc)

\* The background task of job j (backend_code.py).
LRun(j) ==
  /\ EventLoopFree(j)
  /\ calls' = [calls EXCEPT ![j] = LogCall(@, pc[j])]
  /\ \/ LP1(j) \/ LStory(j) \/ LP2(j) \/ LBreakdownCall(j) \/ LBreakdown(j)
     \/ LP3(j) \/ LImage(j) \/ LP4(j) \/ LPage(j) \/ LP5(j) \/ LVoice(j)
     \/ LP6(j) \/ LFinal(j) \/ LCompleted(j)

\* GET /status/{project_id} (backend_code.py)
legacy_check_status(j) ==
  IF j \notin DOMAIN job_progress
  THEN [code |-> 404]
  ELSE [code |-> 200, data |-> job_progress[j]]

----------------------------------------------------------------------------
(* interaction_routes.py: like_comic and record_view                       *)
(*                                                                         *)
(* Each request runs in its own database session.  A session reads the     *)
(* committed rows at each `await db.execute`, and its commit writes the    *)
(* attribute values it computed from what it read.                         *)

\* Interaction requests one behaviour receives.
MaxOps == 4

\* Connections served at the same time.
Connections == {"k1", "k2"}

\* Ids of the Comic rows the store holds, an id no row has, and the users.
ComicIds == {"c1", "c2"}
UnknownId == "c9"
Users == {"u1", "u2"}

\* A committed Comic row as the interaction and explore endpoints read it.
ComicRow(c, u) ==
  [status |-> COMPLETED, title |-> <<"title", c>>, story_text |-> <<"story", c>>,
   data_info |-> EmptyDict, metadata |-> EmptyDict,
   user_id |-> u, is_deleted |-> FALSE, view_count |-> 0, like_count |-> 0]

\* A connection that serves no request and has answered none.
IdleRequest ==
  [op |-> "none", pc |-> "idle", comic_id |-> None, user_id |-> None,
   seen |-> 0, existing_like |-> 0, code |-> 0]

\* The connection after the handler `op` returned or raised with `code`.
Answered(op, code) == [IdleRequest EXCEPT !.op = op, !.code = code]

\* select(Like).filter(Like.comic_id == comic_id, Like.user_id == user_id)
LikesOf(rows, c, u) == {l \in rows : l.comic_id = c /\ l.user_id = u}

\* Like(comic_id=comic_id, user_id=user_id) with the primary key the store assigns
NewLike(id, c, u) == [id |-> id, comic_id |-> c, user_id |-> u]

\* UniqueConstraint('comic_id', 'user_id', name='uix_comic_user') rejects the insert
ViolatesUnique(rows, c, u) == uix_comic_user /\ LikesOf(rows, c, u) # {}

\* comic.like_count += 1
Liked(count) == count + 1

\* Variant: removing a like leaves the counter.
UnlikedKeepsCount(count) == count

\* comic.like_count -= 1
Unliked(count) == count - 1

\* comic.view_count += 1
Viewed(count) == count + 1

\* View(comic_id=comic_id, viewed_at=datetime.utcnow()) with its primary key
NewView(rows, c) == [id |-> Cardinality(rows) + 1, comic_id |-> c]

\* A round trip to the store raises: the request is answered 500, the session
\* is discarded and nothing it did is committed.
ServerError(r) ==
  /\ reqs' = [reqs EXCEPT ![r] = Answered(reqs[r].op, 500)]
  /\ UNCHANGED <<comics, uix_comic_user, likes, views, favoriteRows, like_seq>>

\* like_comic: select(Comic).filter(Comic.id == comic_id); 404 when no row
LikeReadComic(r, c, u) ==
  /\ reqs[r].pc = "idle"
  /\ issued < MaxOps
  /\ issued' = issued + 1
  /\ reqs' = [reqs EXCEPT ![r] =
       IF c \notin DOMAIN comics
       THEN [Answered("like", 404) EXCEPT !.comic_id = c]
       ELSE [op |-> "like", pc |-> "read_like", comic_id |-> c, user_id |-> u,
             seen |-> comics[c].like_count, existing_like |-> 0, code |-> 0]]
  /\ UNCHANGED <<comics, uix_comic_user, likes, views, favoriteRows, like_seq>>

\* like_comic: existing_like = ... .scalar_one_or_none()
LikeReadExisting(r) ==
  /\ reqs[r].pc = "read_like"
  /\ UNCHANGED issued
  /\ LET found == LikesOf(likes, reqs[r].comic_id, reqs[r].user_id)
     IN \/ /\ Cardinality(found) <= 1
           /\ reqs' = [reqs EXCEPT ![r].pc = "commit",
                                   ![r].existing_like =
                                      IF found = {} THEN 0
                                      ELSE (CHOOSE l \in found : TRUE).id]
           /\ UNCHANGED <<comics, uix_comic_user, likes, views, favoriteRows, like_seq>>
        \/ ServerError(r)

\* like_comic: the branch taken on existing_like, up to `await db.commit()`
LikeCommit(r) ==
  /\ reqs[r].pc = "commit" /\ reqs[r].op = "like"
  /\ UNCHANGED issued
  /\ LET c == reqs[r].comic_id
         u == reqs[r].user_id
     IN \/ /\ reqs[r].existing_like # 0
           /\ comics' = [comics EXCEPT ![c].like_count = Unliked(reqs[r].seen)]
           /\ likes' = {l \in likes : l.id # reqs[r].existing_like}
           /\ reqs' = [reqs EXCEPT ![r] = Answered("like", 200)]
           /\ UNCHANGED <<uix_comic_user, views, favoriteRows, like_seq>>
        \/ /\ reqs[r].existing_like = 0
           /\ ~ViolatesUnique(likes, c, u)
           /\ comics' = [comics EXCEPT ![c].like_count = Liked(reqs[r].seen)]
           /\ likes' = likes \cup {NewLike(like_seq + 1, c, u)}
           /\ like_seq' = like_seq + 1
           /\ reqs' = [reqs EXCEPT ![r] = Answered("like", 200)]
           /\ UNCHANGED <<uix_comic_user, views, favoriteRows>>
        \/ ServerError(r)

\* record_view: select(Comic).filter(Comic.id == comic_id); 404 when no row
ViewReadComic(r, c) ==
  /\ reqs[r].pc = "idle"
  /\ issued < MaxOps
  /\ issued' = issued + 1
  /\ reqs' = [reqs EXCEPT ![r] =
       IF c \notin DOMAIN comics
       THEN [Answered("view", 404) EXCEPT !.comic_id = c]
       ELSE [op |-> "view", pc |-> "commit", comic_id |-> c, user_id |-> None,
             seen |-> comics[c].view_count, existing_like |-> 0, code |-> 0]]
  /\ UNCHANGED <<comics, uix_comic_user, likes, views, favoriteRows, like_seq>>

\* record_view: db.add(new_view); comic.view_count += 1; await db.commit()
ViewCommit(r) ==
  /\ reqs[r].pc = "commit" /\ reqs[r].op = "view"
  /\ UNCHANGED issued
  /\ \/ /\ comics' = [comics EXCEPT ![reqs[r].comic_id].view_count = Viewed(reqs[r].seen)]
        /\ views' = views \cup {NewView(views, reqs[r].comic_id)}
        /\ reqs' = [reqs EXCEPT ![r] = Answered("view", 200)]
        /\ UNCHANGED <<uix_comic_user, likes, favoriteRows, like_seq>>
     \/ ServerError(r)

----------------------------------------------------------------------------
(* explore_routes.py: the listings                                         *)

\* .limit(10) of explore_comics, .limit(20) of list_comics, .limit(10) of top_comics
ExploreLimit == 10
ListLimit == 20
TopLimit == 10

\* Search texts a client sends.
Queries == {<<"title">>, <<"c1">>, <<"story", "c2">>, <<"nothing">>}

\* The results a query with .limit(n) may return from the matching ids S.
Limit(S, n) ==
  {T \in SUBSET S : Cardinality(T) = IF Cardinality(S) < n THEN Cardinality(S) ELSE n}

\* Comic.title.ilike(pattern) with pattern = "%q%"
ilike(text, q) ==
  \E k \in 0..(Len(text) - Len(q)) : SubSeq(text, k + 1, k + Len(q)) = q

\* GET /search: the query that reaches the store (lines 22-30)
search_comics(q) ==
  {c \in DOMAIN comics :
     /\ comics[c].is_deleted = FALSE
     /\ ilike(comics[c].title, q) \/ ilike(comics[c].story_text, q)}

\* GET /explore: order_by(func.random()).limit(10); every result it may return
explore_comics ==
  Limit({c \in DOMAIN comics : comics[c].is_deleted = FALSE}, ExploreLimit)

\* GET /comics: order_by(func.random()).limit(20); every result it may return
list_comics ==
  Limit({c \in DOMAIN comics : comics[c].is_deleted = FALSE}, ListLimit)

\* GET /top: order_by(desc(Comic.view_count)).limit(10); every result it may return
top_comics ==
  LET match == {c \in DOMAIN comics : comics[c].is_deleted = FALSE}
  IN {T \in Limit(match, TopLimit) :
        \A x \in T, y \in match \ T : comics[x].view_count >= comics[y].view_count}

\* Variant: the likes listing joins without the is_deleted filter.
liked_comics_unfiltered(user_id) ==
  {c \in DOMAIN comics :
     \E l \in likes : l.comic_id = c /\ l.user_id = user_id}

\* GET /likes/{user_id}
liked_comics(user_id) ==
  {c \in DOMAIN comics :
     /\ \E l \in likes : l.comic_id = c /\ l.user_id = user_id
     /\ comics[c].is_deleted = FALSE}

\* GET /my-media/{user_id}
user_media(user_id) ==
  {c \in DOMAIN comics : comics[c].user_id = user_id /\ comics[c].is_deleted = FALSE}

\* GET /favorites/{user_id}
favorites(user_id) ==
  {c \in DOMAIN comics :
     /\ \E f \in favoriteRows : f.comic_id = c /\ f.user_id = user_id
     /\ comics[c].is_deleted = FALSE}

\* GET /trash/{user_id}
trash(user_id) ==
  {c \in DOMAIN comics : comics[c].user_id = user_id /\ comics[c].is_deleted = TRUE}

\* A user deletes a comic: the flag is set, the row stays.
SoftDelete(c) ==
  /\ c \in DOMAIN comics
  /\ comics[c].is_deleted = FALSE
  /\ comics' = [comics EXCEPT ![c].is_deleted = TRUE]
  /\ UNCHANGED <<interactionVars, storageVars>>

\* A user toggles a favorite: the Favorite row (c, u) is inserted or deleted.
ToggleFavorite(c, u) ==
  /\ c \in DOMAIN comics
  /\ favoriteRows' =
       IF [comic_id |-> c, user_id |-> u] \in favoriteRows
       THEN favoriteRows \ {[comic_id |-> c, user_id |-> u]}
       ELSE favoriteRows \cup {[comic_id |-> c, user_id |-> u]}
  /\ UNCHANGED <<comics, uix_comic_user, likes, views, like_seq, reqs, issued>>

\* The Like rows of a set of (comic, user) pairs, with distinct primary keys.
LikeRows(P) ==
  LET key == CHOOSE f \in [P -> 1..Cardinality(P)] : \A x, y \in P : f[x] = f[y] => x = y
  IN {NewLike(key[x], x[1], x[2]) : x \in P}

\* The View rows of comics that were each viewed n[c] times (here 0 or 1).
ViewRows(n) ==
  LET V == {c \in DOMAIN n : n[c] > 0}
      key == CHOOSE f \in [V -> 1..Cardinality(V)] : \A x, y \in V : f[x] = f[y] => x = y
  IN {[id |-> key[c], comic_id |-> c] : c \in V}

----------------------------------------------------------------------------
\* No interaction request is served while the generation pipeline is observed.
-----------------------------------------------------------------------------
(* app/database.py, app/main.py, app/services/media_service.py            *)

\* Clients one process may construct.
MaxClients == 2

\* cls._instance = None
NoClient == 0

\* The coroutines that use the container client besides the lifespan.
Callers == {"a", "b"}

\* Blob names and payloads of the uploads.
BlobNames == {<<"test.txt">>, <<"test-job", "test.txt">>}
Payloads == {"hello", "world"}

\* No upload was asked for, no URL was returned.
NoUpload == [blob_name |-> << >>, data |-> "none"]
NoUrl == << >>
NoReturn == [ok |-> FALSE, url |-> NoUrl]

\* Variant: every call constructs a client and stores it.
get_instance_always_creates(inst, n) == [instance |-> n + 1, created |-> n + 1]

\* get_instance: _create_instance awaits nothing, so the test of _instance and
\* the assignment run without a suspension in between. n counts the clients
\* constructed so far; the new client is number n + 1.
get_instance(inst, n) ==
  IF inst = NoClient
    THEN [instance |-> n + 1, created |-> n + 1]
    ELSE [instance |-> inst, created |-> n]

\* Variant: the upload keeps the blob already stored under the name.
upload_blob_keeping(blobset, blob_name, data) ==
  blobset \cup {[name |-> blob_name, data |-> data]}

\* upload_blob(data, overwrite=True): the blob of that name is replaced.
upload_blob(blobset, blob_name, data) ==
  {b \in blobset : b.name # blob_name} \cup {[name |-> blob_name, data |-> data]}

\* lifespan, before the yield: await BlobContainerClientSingleton.get_instance()
Startup ==
  /\ life = "startup"
  /\ get_instance(instance, created).created <= MaxClients
  /\ instance' = get_instance(instance, created).instance
  /\ created' = get_instance(instance, created).created
  /\ life' = "serving"
  /\ UNCHANGED <<closes, held, upc, request, returned, container>>

\* A coroutine calls get_instance and keeps what it returns.
GetInstance(t) ==
  /\ upc[t] = "idle"
  /\ get_instance(instance, created).created <= MaxClients
  /\ instance' = get_instance(instance, created).instance
  /\ created' = get_instance(instance, created).created
  /\ held' = [held EXCEPT ![t] = get_instance(instance, created).instance]
  /\ UNCHANGED <<closes, life, upc, request, returned, container>>

\* close_instance up to its await: if cls._instance is not None: _instance.close()
CloseInstance ==
  /\ life = "serving"
  /\ IF instance # NoClient
       THEN /\ closes' = [closes EXCEPT ![instance] = @ + 1]
            /\ life' = "closing"
       ELSE /\ life' = "stopped"
            /\ UNCHANGED closes
  /\ UNCHANGED <<instance, created, held, upc, request, returned, container>>

\* close_instance after its await: cls._instance = None
CloseReturn ==
  /\ life = "closing"
  /\ instance' = NoClient
  /\ life' = "stopped"
  /\ UNCHANGED <<created, closes, held, upc, request, returned, container>>

\* close() raises: close_instance ends before it clears cls._instance
CloseRaise ==
  /\ life = "closing"
  /\ life' = "close_failed"
  /\ UNCHANGED <<instance, created, closes, held, upc, request, returned, container>>

\* _upload_blob(blob_container_client, blob_name, data) up to its await
UploadBlob(t, blob_name, data) ==
  /\ upc[t] = "idle"
  /\ held[t] # NoClient
  /\ upc' = [upc EXCEPT ![t] = "uploading"]
  /\ request' = [request EXCEPT ![t] = [blob_name |-> blob_name, data |-> data]]
  /\ returned' = [returned EXCEPT ![t] = NoReturn]
  /\ UNCHANGED <<instance, created, closes, held, life, container>>

\* MediaService.upload_to_storage(data, container_name, blob_name, ...) up to
\* its await; it builds a client of its own.
UploadToStorage(t, blob_name, data) ==
  /\ upc[t] = "idle"
  /\ upc' = [upc EXCEPT ![t] = "storing"]
  /\ request' = [request EXCEPT ![t] = [blob_name |-> blob_name, data |-> data]]
  /\ returned' = [returned EXCEPT ![t] = NoReturn]
  /\ UNCHANGED <<instance, created, closes, held, life, container>>

\* The upload returns the URL of the blob, or raises; an upload through a
\* closed client raises. An upload that raised may have reached the service.
UploadReturn(t) ==
  /\ upc[t] \in {"uploading", "storing"}
  /\ upc' = [upc EXCEPT ![t] = "idle"]
  /\ \/ /\ upc[t] = "uploading" => closes[held[t]] = 0
        /\ container' = upload_blob(container, request[t].blob_name, request[t].data)
        /\ returned' = [returned EXCEPT ![t] =
                          [ok |-> TRUE, url |-> BlobUrl(request[t].blob_name)]]
     \/ /\ upc[t] = "uploading" => closes[held[t]] = 0
        /\ container' = upload_blob(container, request[t].blob_name, request[t].data)
        /\ UNCHANGED returned
     \/ UNCHANGED <<container, returned>>
  /\ UNCHANGED <<instance, created, closes, held, life, request>>

NoStorage ==
  /\ instance = NoClient
  /\ created = 0
  /\ closes = [c \in 1..MaxClients |-> 0]
  /\ held = [t \in Callers |-> NoClient]
  /\ life = "startup"
  /\ upc = [t \in Callers |-> "idle"]
  /\ request = [t \in Callers |-> NoUpload]
  /\ returned = [t \in Callers |-> NoReturn]
  /\ container = {}

NoInteraction ==
  /\ uix_comic_user = TRUE
  /\ likes = {}
  /\ views = {}
  /\ favoriteRows = {}
  /\ like_seq = 0
  /\ reqs = [r \in Connections |-> IdleRequest]
  /\ issued = 0

Init ==
  /\ app \in {"routes", "legacy"}
  /\ pc = [j \in JobIds |-> "idle"]
  /\ comics = EmptyDict
  /\ panelRows = {}
  /\ blobs = {}
  /\ jobs = EmptyDict
  /\ job_progress = EmptyDict
  /\ loc = [j \in JobIds |-> InitLoc]
  /\ raised = [j \in JobIds |-> << >>]
  /\ trail = [j \in JobIds |-> [job |-> << >>, comic |-> << >>]]
  /\ calls = [j \in JobIds |-> << >>]
  /\ NoInteraction
  /\ NoStorage

Next ==
  \/ \E j \in JobIds : RStart(j) /\ UNCHANGED <<interactionVars, storageVars>>
  \/ \E j \in JobIds : RRun(j) /\ UNCHANGED <<interactionVars, storageVars>>
  \/ \E j \in JobIds : LStart(j) /\ UNCHANGED <<interactionVars, storageVars>>
  \/ \E j \in JobIds : LRun(j) /\ UNCHANGED <<interactionVars, storageVars>>

Spec == Init /\ [][Next]_vars

\* The event loop runs every scheduled task; every adapter call returns or raises.
FairSpec ==
  /\ Spec
  /\ \A j \in JobIds : /\ WF_vars(RRun(j) /\ UNCHANGED <<interactionVars, storageVars>>)
                       /\ WF_vars(LRun(j) /\ UNCHANGED <<interactionVars, storageVars>>)

\* The server that serves the interaction endpoints over a store that holds
\* the Comic rows of finished generations; its `jobs` map is empty.  The likes
\* table carries uix_comic_user when it was created from the mapped classes
\* (database.py) and does not when it was created by the migration.
InteractionInit ==
  /\ app = "routes"
  /\ pc = [j \in JobIds |-> "idle"]
  /\ comics = [c \in ComicIds |-> ComicRow(c, "u1")]
  /\ panelRows = {}
  /\ blobs = {}
  /\ jobs = EmptyDict
  /\ job_progress = EmptyDict
  /\ loc = [j \in JobIds |-> InitLoc]
  /\ raised = [j \in JobIds |-> << >>]
  /\ trail = [j \in JobIds |-> [job |-> << >>, comic |-> << >>]]
  /\ calls = [j \in JobIds |-> << >>]
  /\ uix_comic_user \in BOOLEAN
  /\ likes = {}
  /\ views = {}
  /\ favoriteRows = {}
  /\ like_seq = 0
  /\ reqs = [r \in Connections |-> IdleRequest]
  /\ issued = 0
  /\ NoStorage

InteractionNext ==
  \/ \E r \in Connections, c \in ComicIds \cup {UnknownId}, u \in Users :
       LikeReadComic(r, c, u) /\ UNCHANGED <<app, pipelineVars, storageVars>>
  \/ \E r \in Connections : LikeReadExisting(r) /\ UNCHANGED <<app, pipelineVars, storageVars>>
  \/ \E r \in Connections : LikeCommit(r) /\ UNCHANGED <<app, pipelineVars, storageVars>>
  \/ \E r \in Connections, c \in ComicIds \cup {UnknownId} :
       ViewReadComic(r, c) /\ UNCHANGED <<app, pipelineVars, storageVars>>
  \/ \E r \in Connections : ViewCommit(r) /\ UNCHANGED <<app, pipelineVars, storageVars>>

InteractionSpec == InteractionInit /\ [][InteractionNext]_vars

\* The server that serves the listings over a store that holds Comic rows of
\* any owners with the likes and views earlier requests left, one after the
\* other.
ExploreInit ==
  /\ app = "routes"
  /\ pc = [j \in JobIds |-> "idle"]
  /\ panelRows = {}
  /\ blobs = {}
  /\ jobs = EmptyDict
  /\ job_progress = EmptyDict
  /\ loc = [j \in JobIds |-> InitLoc]
  /\ raised = [j \in JobIds |-> << >>]
  /\ trail = [j \in JobIds |-> [job |-> << >>, comic |-> << >>]]
  /\ calls = [j \in JobIds |-> << >>]
  /\ uix_comic_user \in BOOLEAN
  /\ \E owner \in [ComicIds -> Users], P \in SUBSET (ComicIds \X Users),
        n \in [ComicIds -> 0..1] :
       /\ likes = LikeRows(P)
       /\ like_seq = Cardinality(P)
       /\ views = ViewRows(n)
       /\ comics = [c \in ComicIds |->
            [ComicRow(c, owner[c]) EXCEPT
               !.like_count = Cardinality({x \in P : x[1] = c}),
               !.view_count = n[c]]]
  /\ favoriteRows = {}
  /\ reqs = [r \in Connections |-> IdleRequest]
  /\ issued = 0
  /\ NoStorage

ExploreNext ==
  \/ \E c \in ComicIds : SoftDelete(c) /\ UNCHANGED <<app, pipelineVars, storageVars>>
  \/ \E c \in ComicIds, u \in Users :
       ToggleFavorite(c, u) /\ UNCHANGED <<app, pipelineVars, storageVars>>

ExploreSpec == ExploreInit /\ [][ExploreNext]_vars

\* The process that holds the container client: its lifespan, and coroutines
\* that fetch the client and upload through it or through MediaService.
StorageInit ==
  /\ app = "routes"
  /\ pc = [j \in JobIds |-> "idle"]
  /\ comics = EmptyDict
  /\ panelRows = {}
  /\ blobs = {}
  /\ jobs = EmptyDict
  /\ job_progress = EmptyDict
  /\ loc = [j \in JobIds |-> InitLoc]
  /\ raised = [j \in JobIds |-> << >>]
  /\ trail = [j \in JobIds |-> [job |-> << >>, comic |-> << >>]]
  /\ calls = [j \in JobIds |-> << >>]
  /\ NoInteraction
  /\ NoStorage

StorageNext ==
  \/ Startup /\ UNCHANGED <<app, comics, pipelineVars, interactionVars>>
  \/ \E t \in Callers : GetInstance(t) /\ UNCHANGED <<app, comics, pipelineVars, interactionVars>>
  \/ CloseInstance /\ UNCHANGED <<app, comics, pipelineVars, interactionVars>>
  \/ CloseReturn /\ UNCHANGED <<app, comics, pipelineVars, interactionVars>>
  \/ CloseRaise /\ UNCHANGED <<app, comics, pipelineVars, interactionVars>>
  \/ \E t \in Callers, n \in BlobNames, d \in Payloads :
       UploadBlob(t, n, d) /\ UNCHANGED <<app, comics, pipelineVars, interactionVars>>
  \/ \E t \in Callers, n \in BlobNames, d \in Payloads :
       UploadToStorage(t, n, d) /\ UNCHANGED <<app, comics, pipelineVars, interactionVars>>
  \/ \E t \in Callers : UploadReturn(t) /\ UNCHANGED <<app, comics, pipelineVars, interactionVars>>

StorageSpec == StorageInit /\ [][StorageNext]_vars

----------------------------------------------------------------------------
(* Vocabulary of the properties                                            *)

Started(j) == pc[j] \notin {"idle", "start_failed", "rejected"}

\* The Job Tracker entry of job j.
Tracker(j) == IF app = "routes" THEN jobs[j] ELSE job_progress[j]

\* What a client polling the status endpoint of the running server gets.
Poll(j) == IF app = "routes" THEN check_status(j) ELSE legacy_check_status(j)

IsFailed(s) == s \in {FAILED, "error"}
IsCompleted(s) == s = COMPLETED
IsTerminal(s) == IsFailed(s) \/ IsCompleted(s)

\* The text e occurs in the text msg.
Embeds(msg, e) ==
  \E k \in 0..(Len(msg) - Len(e)) : SubSeq(msg, k + 1, k + Len(e)) = e

\* Position of a status in the forward order, in both vocabularies.
Rank(s) ==
  CASE s \in {PENDING, "started"} -> 0
    [] s = GENERATING_STORY -> 10
    [] s \in {GENERATING_PANELS, "breaking_story"} -> 20
    [] s = GENERATING_IMAGES -> 30
    [] s = "creating_comic" -> 35
    [] s = GENERATING_AUDIO -> 40
    [] s = "finalizing" -> 45
    [] s = COMPLETED -> 50
    [] OTHER -> 0 - 1

\* A status may stay, move forward, or move from a non-terminal value to failed.
Forward(s, t) ==
  \/ s = t
  \/ ~IsFailed(s) /\ ~IsFailed(t) /\ Rank(s) < Rank(t)
  \/ ~IsTerminal(s) /\ IsFailed(t)

NominalSequence ==
  <<PENDING, GENERATING_STORY, GENERATING_PANELS, GENERATING_IMAGES,
    GENERATING_AUDIO, COMPLETED>>

PanelRowsOf(j) == {r \in panelRows : r.comic_id = j}

----------------------------------------------------------------------------
\* C1: a job whose adapter calls all succeed takes exactly the status values
\* PENDING, GENERATING_STORY, GENERATING_PANELS, GENERATING_IMAGES,
\* GENERATING_AUDIO, COMPLETED, in that order, none skipped.
C1_NominalStatusSequence ==
  \A j \in JobIds :
    (/\ app = "routes" /\ pc[j] = "done"
     /\ Len(comics[j].data_info.panels_data) >= 1
     /\ Len(jobs[j].panels) >= 1)
    => /\ trail[j].job = NominalSequence
       /\ trail[j].comic = NominalSequence

\* C2: when a step of run(job_id) raises, the Job Tracker entry ends FAILED with
\* a message that contains the error text, and the Comic record ends FAILED too.
C2_FailureRecordedInBoth ==
  \A j \in JobIds :
    pc[j] = "failed" =>
      /\ IsFailed(Tracker(j).status)
      /\ Embeds(Tracker(j).message, raised[j])
      /\ app = "routes" => comics[j].status = FAILED

\* C3: once the background run of a job has failed, a poll of the status
\* endpoint returns FAILED with a message that embeds the exception text.
C3_PollerReadsFailed ==
  \A j \in JobIds :
    pc[j] = "failed" =>
      /\ Poll(j).code = 200
      /\ IsFailed(Poll(j).data.status)
      /\ "message" \in DOMAIN Poll(j).data
      /\ Embeds(Poll(j).data.message, raised[j])

\* C4: COMPLETED and FAILED are absorbing, in the Job Tracker and in the Comic
\* record: no step changes a terminal status to another value.
C4_TerminalAbsorbing ==
  [][\A j \in JobIds :
       /\ (j \in DOMAIN jobs /\ IsTerminal(jobs[j].status))
            => jobs'[j].status = jobs[j].status
       /\ (j \in DOMAIN job_progress /\ IsTerminal(job_progress[j].status))
            => job_progress'[j].status = job_progress[j].status
       /\ (j \in DOMAIN comics /\ IsTerminal(comics[j].status))
            => comics'[j].status = comics[j].status]_vars

\* A run went on after its Comic record was COMPLETED, and failed.
C4_Witness ==
  \E j \in JobIds :
    /\ app = "routes" /\ pc[j] = "failed"
    /\ comics[j].status = COMPLETED /\ jobs[j].status = FAILED

\* C5: if the image call or the upload of its result fails for a panel, the job
\* ends FAILED and the store holds no Panel record of that job.
C5_NoPanelRowsAfterImageFailure ==
  \A j \in JobIds :
    (/\ app = "routes" /\ pc[j] = "failed"
     /\ raised[j] \in {<<"generate_pixel_art">>, <<"upload_to_blob_storage">>})
    => /\ IsFailed(jobs[j].status)
       /\ PanelRowsOf(j) = {}

\* C6: for a comic whose status is COMPLETED the Panel records carry the sequence
\* numbers 1..N, each once, N being the length of the stored breakdown, and the
\* panel with sequence k carries the k-th description.
C6_PanelSequences ==
  \A j \in DOMAIN comics :
    comics[j].status = COMPLETED =>
      LET pd == comics[j].data_info.panels_data
          rows == PanelRowsOf(j)
      IN /\ {r.sequence : r \in rows} = 1..Len(pd)
         /\ Cardinality(rows) = Len(pd)
         /\ \A r \in rows :
              r.sequence \in 1..Len(pd)
                => r.description = pd[r.sequence].image_description

C6_Witness ==
  \E j \in DOMAIN comics :
    /\ comics[j].status = COMPLETED
    /\ Len(comics[j].data_info.panels_data) >= 2
    /\ Cardinality(PanelRowsOf(j)) >= 2

\* C7: every started job eventually has a Job Tracker entry that is COMPLETED
\* or FAILED (fair scheduling, every adapter call returns or raises).
C7_EventuallyTerminal ==
  \A j \in JobIds : Started(j) ~> (Started(j) /\ IsTerminal(Tracker(j).status))

\* One job ended COMPLETED and another ended FAILED.
C7_Witness ==
  \E j, k \in JobIds :
    /\ pc[j] = "done" /\ IsCompleted(Tracker(j).status)
    /\ pc[k] = "failed" /\ IsFailed(Tracker(k).status)

\* C8: the status of a job, in the Job Tracker and in the Comic record, never
\* goes backward in the order of the stages; the only other move is from a
\* non-terminal status to FAILED.
C8_MonotonicStatus ==
  [][\A j \in JobIds :
       /\ j \in DOMAIN jobs => Forward(jobs[j].status, jobs'[j].status)
       /\ j \in DOMAIN job_progress
            => Forward(job_progress[j].status, job_progress'[j].status)
       /\ j \in DOMAIN comics => Forward(comics[j].status, comics'[j].status)]_vars

\* Both records of a job moved forward twice.
C8_Witness ==
  \E j \in JobIds :
    /\ Len(trail[j].job) >= 3 /\ Len(trail[j].comic) >= 3
    /\ pc[j] = "done"

\* C9 (as stated): when start returns, the Job Tracker entry is PENDING at
\* step 0 of 5.
C9_RegisteredPendingZeroOfFive ==
  \A j \in JobIds :
    pc[j] \in {"r_dirs", "l_p1"} =>
      /\ Tracker(j).status = PENDING
      /\ "total_steps" \in DOMAIN Tracker(j)
      /\ Tracker(j).total_steps = 5

\* C9 (amended): start registers the job before the run is scheduled: whenever
\* the job is started its records exist and a poll answers 200 with a status of
\* the vocabulary; when start returns the records are in their initial status at
\* step 0 (PENDING twice in comic_routes.py, which stores no total; "started",
\* 0 of 6, in backend_code.py) and no stage has run.
C9_RegisteredBeforeRun ==
  \A j \in JobIds :
    /\ Started(j) =>
         /\ app = "routes" => j \in DOMAIN comics /\ j \in DOMAIN jobs
         /\ app = "legacy" => j \in DOMAIN job_progress
         /\ Poll(j).code = 200
         /\ Rank(Poll(j).data.status) >= 0 \/ IsFailed(Poll(j).data.status)
    /\ pc[j] = "r_dirs" =>
         /\ comics[j].status = PENDING /\ comics[j].story_text = None
         /\ jobs[j].status = PENDING /\ jobs[j].progress = 0
         /\ "total_steps" \notin DOMAIN jobs[j]
    /\ pc[j] = "l_p1" =>
         /\ job_progress[j].status = "started"
         /\ job_progress[j].current_step = 0
         /\ job_progress[j].total_steps = LegacyTotal

\* Start has just returned for one job while another is already running.
C9_Witness ==
  \E j, k \in JobIds :
    /\ pc[j] \in {"r_dirs", "l_p1"}
    /\ Started(k) /\ pc[k] \notin {"r_dirs", "l_p1"}

\* C10: whenever the status of a job reads COMPLETED, the panels list exposed
\* for it has as many entries as the decomposition returned, each with a
\* non-empty image_url.
C10_CompletedPanelsExposed ==
  \A j \in JobIds :
    /\ (app = "routes" /\ j \in DOMAIN comics /\ Poll(j).data.status = COMPLETED)
         => LET urls == get_comic_data(j).data.panel_urls
            IN /\ Len(urls) = Len(comics[j].data_info.panels_data)
               /\ \A k \in 1..Len(urls) : urls[k] # << >>
    /\ (app = "legacy" /\ j \in DOMAIN job_progress
          /\ Poll(j).data.status = COMPLETED)
         => \A k \in 1..Len(Poll(j).data.panels) :
              /\ "image_url" \in DOMAIN Poll(j).data.panels[k]
              /\ Poll(j).data.panels[k].image_url # << >>

----------------------------------------------------------------------------
(* Vocabulary of the interaction properties                                *)

\* The Like rows of comic c.
LikeRowsOf(c) == {l \in likes : l.comic_id = c}

\* The View rows of comic c.
ViewRowsOf(c) == {v \in views : v.comic_id = c}

\* Connection r is about to commit a like and no other request has committed
\* on its comic and user since it read them.
ReadsCurrent(r) ==
  LET found == LikesOf(likes, reqs[r].comic_id, reqs[r].user_id)
  IN /\ reqs[r].seen = comics[reqs[r].comic_id].like_count
     /\ IF reqs[r].existing_like = 0
        THEN found = {}
        ELSE found = {NewLike(reqs[r].existing_like, reqs[r].comic_id, reqs[r].user_id)}

\* This step is the successful commit of the request of connection r.
Commits(r, op) ==
  /\ reqs[r].op = op /\ reqs[r].pc = "commit"
  /\ reqs'[r].pc = "idle" /\ reqs'[r].code = 200

\* C11: liking is a toggle.  A like by user u on comic c that is not interleaved
\* with another request inserts exactly one Like row (c, u) and raises
\* like_count by 1 when no such row exists, and removes that row and lowers
\* like_count by 1 when it exists (no second row is inserted); so two
\* successive likes restore the Like rows and like_count.
C11_LikeToggles ==
  [][\A r \in Connections :
       Commits(r, "like") /\ ReadsCurrent(r) =>
         LET c == reqs[r].comic_id
             u == reqs[r].user_id
             before == LikesOf(likes, c, u)
         IN /\ \A d \in DOMAIN comics : d # c => comics'[d] = comics[d]
            /\ before = {} =>
                 /\ Cardinality(LikesOf(likes', c, u)) = 1
                 /\ likes \subseteq likes'
                 /\ Cardinality(likes') = Cardinality(likes) + 1
                 /\ comics'[c].like_count = comics[c].like_count + 1
            /\ before # {} =>
                 /\ likes' = likes \ before
                 /\ comics'[c].like_count = comics[c].like_count - 1]_vars

\* Two likes were served one after the other, and the rows and the counters
\* are what they were before the first.
C11_Witness ==
  /\ issued = 2 /\ like_seq = 1 /\ likes = {}
  /\ \A c \in DOMAIN comics : comics[c].like_count = 0
  /\ \A r \in Connections : reqs[r].pc = "idle"
  /\ \E r \in Connections : reqs[r].op = "like" /\ reqs[r].code = 200

\* C12: in every reachable state there is at most one Like row for each
\* (comic, user), also when two like requests of one user interleave.
C12_AtMostOneLikePerPair ==
  \A c \in ComicIds, u \in Users : Cardinality(LikesOf(likes, c, u)) <= 1

\* C13: in every reachable state the like_count of each comic is non-negative
\* and equals the number of its Like rows (checked here for the store whose
\* likes table carries the unique constraint).
C13_LikeCountMatchesRows ==
  uix_comic_user =>
    \A c \in DOMAIN comics :
      /\ comics[c].like_count >= 0
      /\ comics[c].like_count = Cardinality(LikeRowsOf(c))

\* C14: in every reachable state the view_count of each comic equals the
\* number of its View rows, also when record_view calls run concurrently.
C14_ViewCountMatchesRows ==
  \A c \in DOMAIN comics : comics[c].view_count = Cardinality(ViewRowsOf(c))

\* C15: a comic whose is_deleted flag is set is in no result of the explore,
\* comics, top, search, likes, my-media and favorites listings and is in the
\* trash listing of its owning user; a comic whose flag is not set is in no
\* trash listing.
C15_DeletedOnlyInTrash ==
  \A c \in DOMAIN comics :
    /\ comics[c].is_deleted =>
         /\ \A T \in explore_comics \cup list_comics \cup top_comics : c \notin T
         /\ \A q \in Queries : c \notin search_comics(q)
         /\ \A u \in Users :
              c \notin liked_comics(u) \cup user_media(u) \cup favorites(u)
         /\ c \in trash(comics[c].user_id)
    /\ ~comics[c].is_deleted => \A u \in Users : c \notin trash(u)

\* A deleted comic that a user liked and made a favorite and that a search text
\* matches, next to a comic that is not deleted.
C15_Witness ==
  \E c, d \in DOMAIN comics :
    /\ comics[c].is_deleted /\ ~comics[d].is_deleted
    /\ \E u \in Users : c \in liked_comics_unfiltered(u)
    /\ \E f \in favoriteRows : f.comic_id = c
    /\ \E q \in Queries : ilike(comics[c].title, q)
    /\ d \in search_comics(<<"title">>)

\* C16: within one job the adapter calls start in stage order: a decomposition
\* call only after a story call, an image call only after a decomposition
\* call, and no image call or panel upload after a voiceover call has started.
C16_StageOrder ==
  \A j \in JobIds :
    \A b \in 1..Len(calls[j]) :
      /\ calls[j][b] = "decomposition" => \E a \in 1..(b - 1) : calls[j][a] = "story"
      /\ calls[j][b] = "image" => \E a \in 1..(b - 1) : calls[j][a] = "decomposition"
      /\ calls[j][b] \in {"image", "upload_panel"} =>
           \A a \in 1..(b - 1) : calls[j][a] # "voiceover"

\* The Job Tracker map of the running server.
TrackerMap == IF app = "routes" THEN jobs ELSE job_progress

\* The fields an update that records a failure names, in both revisions.
FailureFields == {"status", "message", "current_step", "total_steps"}

\* C17: a Job Tracker update merges: no field of a job's entry disappears, and
\* the update that records a failure leaves every field it does not name (the
\* story text, the panel list) at its previous value.
C17_UpdateMerges ==
  [][\A j \in DOMAIN TrackerMap :
       LET old == TrackerMap[j]
           new == TrackerMap'[j]
       IN /\ DOMAIN old \subseteq DOMAIN new
          /\ IsFailed(new.status) /\ ~IsFailed(old.status) =>
               \A k \in DOMAIN old \ FailureFields : new[k] = old[k]]_vars

\* Every id a request may name.
AllIds == JobIds \cup ComicIds \cup {UnknownId}

\* C18: a request that names a job id or comic id that does not exist is
\* answered 404 and changes nothing: the status, play, panel and share
\* endpoints answer 404 for every id without a record and share leaves the
\* Job Tracker as it is; a like or view request for an id without a Comic row
\* is answered 404 in the step that receives it, and that step leaves the
\* Job Tracker, the Comic, Like and View rows and the counters unchanged.
C18_UnknownIdNotFound ==
  [][/\ \A id \in AllIds :
          /\ id \notin DOMAIN comics <=> check_status(id).code = 404
          /\ id \notin DOMAIN jobs =>
               /\ get_comic_data(id).code = 404
               /\ \A i \in 0..(MaxPanels + 1) : get_panel(id, i).code = 404
               /\ \A o \in get_share_data(id) : o.code = 404 /\ o.jobs = jobs
          /\ id \notin DOMAIN job_progress => legacy_check_status(id).code = 404
     /\ \A r \in Connections :
          reqs[r].pc = "idle" /\ reqs'[r] # reqs[r] =>
            IF reqs'[r].comic_id \in DOMAIN comics
            THEN reqs'[r].code # 404
            ELSE /\ reqs'[r].code = 404 /\ reqs'[r].pc = "idle"
                 /\ UNCHANGED <<comics, likes, views, favoriteRows, like_seq,
                                jobs, job_progress, panelRows>>]_vars

\* A like and a view that named an id without a Comic row were answered 404
\* while the store held the rows of an answered like and an answered view.
C18_Witness ==
  /\ \E r \in Connections :
       reqs[r].op = "like" /\ reqs[r].code = 404 /\ reqs[r].comic_id = UnknownId
  /\ \E r \in Connections :
       reqs[r].op = "view" /\ reqs[r].code = 404 /\ reqs[r].comic_id = UnknownId
  /\ likes # {} /\ views # {}
  /\ check_status(UnknownId).code = 404
  /\ \E c \in ComicIds : check_status(c).code = 200

\* Job a is inside an adapter call that has not returned.
InAdapterCall(a) ==
  \/ pc[a] \in BlockingCalls
  \/ AdapterCallAt(pc[a]) \notin {None, "decomposition"}

\* The task of job b has a next step to take.
Running(b) == pc[b] \notin {"idle", "start_failed", "rejected", "done", "failed"}

\* C19: a job that is stuck in an adapter call does not block other jobs:
\* whenever job a is inside an adapter call, the task of every other job that
\* has a step left can take it.
C19_OthersNotBlocked ==
  \A a, b \in JobIds :
    a # b /\ InAdapterCall(a) /\ Running(b) =>
      ENABLED ((RRun(b) \/ LRun(b)) /\ UNCHANGED <<interactionVars, storageVars>>)

\* Where the start call and the task of job j stand: a step of j changes it.
TaskState(j) == <<pc[j], loc[j], calls[j], raised[j]>>

\* C20: with several jobs, the Job Tracker entry of job j is written only by
\* the start call of j and by the one background task of j: a step that
\* creates or changes the entry of j is a step of j and of no other job, the
\* entry is created by the start call, the task of j is scheduled once (by the
\* step that leaves "idle", which is never entered again), and the share
\* handler leaves every entry as it is.
C20_OnlyOwnTaskWrites ==
  [][\A j \in JobIds :
       LET had == j \in DOMAIN TrackerMap
           has == j \in DOMAIN TrackerMap'
       IN /\ (had # has \/ (had /\ TrackerMap'[j] # TrackerMap[j])) =>
               /\ TaskState(j)' # TaskState(j)
               /\ \A k \in JobIds \ {j} : TaskState(k)' = TaskState(k)
          /\ ~had /\ has => pc[j] = "idle"
          /\ had => has
          /\ pc[j] # "idle" => pc'[j] # "idle"
          /\ pc'[j] \in {"r_dirs", "l_p1"} => pc[j] \in {"idle", pc'[j]}
          /\ \A o \in get_share_data(j) : o.jobs = jobs]_vars

\* Two jobs run at the same time and their entries differ.
C20_Witness ==
  /\ \A j \in JobIds : j \in DOMAIN TrackerMap /\ Running(j) /\ calls[j] # << >>
  /\ TrackerMap["j1"].status # TrackerMap["j2"].status

\* C21: after a job fails it is not retried and nothing is rolled back: the
\* step that fails and every later step leave the story text and the panel
\* breakdown of the Comic record, the committed Panel rows, the uploaded blobs
\* and the story of the jobs entry as they were, and once the job is failed
\* its task issues no further adapter call and stays failed.
C21_NoRetryNoRollback ==
  [][\A j \in JobIds :
       pc'[j] = "failed" =>
         /\ pc[j] = "failed" => calls'[j] = calls[j]
         /\ app = "routes" =>
              /\ comics'[j].story_text = comics[j].story_text
              /\ comics'[j].data_info = comics[j].data_info
              /\ PanelRowsOf(j) \subseteq panelRows'
              /\ \A b \in blobs : b \in blobs'
              /\ j \in DOMAIN jobs => jobs'[j].story = jobs[j].story]_vars

\* A failed job whose story, breakdown, Panel rows and blobs are in place
\* while the other job takes steps.
C21_Witness ==
  \E j \in JobIds :
    /\ app = "routes" /\ pc[j] = "failed"
    /\ comics[j].story_text # None
    /\ "panels_data" \in DOMAIN comics[j].data_info
    /\ PanelRowsOf(j) # {}
    /\ PanelBlobKey(j, 0) \in blobs
    /\ \E k \in JobIds \ {j} : Running(k)

\* C22: a generation request whose panel count lies outside 1..20 is rejected
\* before anything is created (no Comic record, no tracker entry, no task),
\* and every count in 1..20 passes validation.
C22_PanelCountValidated ==
  [][\A j \in JobIds :
       (pc[j] = "idle" /\ pc'[j] # "idle") =>
         IF loc'[j].num_panels >= 1 /\ loc'[j].num_panels <= 20
           THEN pc'[j] # "rejected"
           ELSE /\ pc'[j] = "rejected"
                /\ comics' = comics
                /\ jobs' = jobs
                /\ job_progress' = job_progress]_vars

\* C22 restricted to the routes revision, whose StoryPrompt bounds the count.
C22_RoutesPanelCountValidated ==
  [][app = "routes" =>
       \A j \in JobIds :
         (pc[j] = "idle" /\ pc'[j] # "idle") =>
           IF loc'[j].num_panels >= 1 /\ loc'[j].num_panels <= 20
             THEN pc'[j] # "rejected"
             ELSE /\ pc'[j] = "rejected"
                  /\ comics' = comics
                  /\ jobs' = jobs]_vars

\* A legacy job was started with a panel count outside 1..20.
C22_LegacyAcceptsAnyCount ==
  \E j \in JobIds :
    /\ app = "legacy" /\ pc[j] = "l_p1"
    /\ loc[j].num_panels \notin 1..20
    /\ j \in DOMAIN job_progress

\* The decomposition stage of job j has begun.
DecompositionBegun(j) == \E k \in 1..Len(calls[j]) : calls[j][k] = "decomposition"

\* The narrative text in the Job Tracker entry of job j, None when absent.
TrackerStory(j) ==
  IF j \in DOMAIN TrackerMap /\ "story" \in DOMAIN TrackerMap[j]
    THEN TrackerMap[j].story
    ELSE None

\* C23: from the moment the decomposition stage of a job begins, the narrative
\* text is stored, non-null and identical, in the Comic record and in the Job
\* Tracker entry of the job, for the rest of the run.
C23_StoryInBothRecords ==
  \A j \in JobIds :
    (app = "routes" /\ DecompositionBegun(j)) =>
      /\ comics[j].story_text # None
      /\ TrackerStory(j) = comics[j].story_text

\* The Comic record half of C23: it holds the text from decomposition on.
C23_StoryInComicRecord ==
  \A j \in JobIds :
    (app = "routes" /\ DecompositionBegun(j)) => comics[j].story_text # None

\* A routes job is inside its first decomposition with no story in its entry.
C23_TrackerWithoutStory ==
  \E j \in JobIds :
    /\ app = "routes" /\ pc[j] = "r_in_breakdown"
    /\ comics[j].story_text # None
    /\ jobs[j].story = None

\* C24: once a job id has an entry in the Job Tracker map it has one in every
\* later state: no step removes an entry, the set of tracked ids only grows.
C24_TrackedIdsOnlyGrow ==
  [][/\ DOMAIN jobs \subseteq DOMAIN jobs'
     /\ DOMAIN job_progress \subseteq DOMAIN job_progress']_vars

\* Both jobs are tracked, one has finished (either way) and the other has
\* written its entry after that.
C24_Witness ==
  \E j \in JobIds : \E k \in JobIds \ {j} :
    /\ pc[j] \in {"done", "failed"}
    /\ JobIds \subseteq DOMAIN TrackerMap
    /\ IsTerminal(TrackerMap[j].status)
    /\ Running(k) /\ calls[k] # << >>

\* The blobs the container holds under a name.
BlobsNamed(blobset, blob_name) == {b \in blobset : b.name = blob_name}

C26_StatusRecordsAgree ==
  \A j \in DOMAIN jobs :
    /\ comics[j].status = COMPLETED =>
         /\ ~IsFailed(jobs[j].status)
         /\ pc[j] \in {"done", "failed"} => IsTerminal(jobs[j].status)
    /\ jobs[j].status = COMPLETED => comics[j].status = COMPLETED

\* The second half of C26: a COMPLETED entry implies a COMPLETED Comic record.
C26_TrackerCompletedImpliesComic ==
  \A j \in DOMAIN jobs :
    jobs[j].status = COMPLETED => comics[j].status = COMPLETED

\* A step after the COMPLETED commit raised: Comic COMPLETED, entry FAILED.
C26_CompletedComicFailedJob ==
  \E j \in DOMAIN jobs :
    /\ pc[j] = "failed"
    /\ comics[j].status = COMPLETED
    /\ jobs[j].status = FAILED

\* How many times the call log of job j names capability a.
CallCount(j, a) == Cardinality({k \in 1..Len(calls[j]) : calls[j][k] = a})

\* C27: in one run of a job each generation capability is invoked at most
\* once per unit of work: the story, decomposition and voiceover calls once,
\* the image call once per panel description (a decomposition yields at most
\* MaxPanels of them).
C27_EachCapabilityOnce ==
  \A j \in JobIds :
    /\ CallCount(j, "story") <= 1
    /\ CallCount(j, "decomposition") <= 1
    /\ CallCount(j, "voiceover") <= 1
    /\ CallCount(j, "image") <= MaxPanels

\* C27 for the legacy task alone.
C27_LegacyEachCapabilityOnce ==
  app = "legacy" =>
    \A j \in JobIds :
      /\ CallCount(j, "story") <= 1
      /\ CallCount(j, "decomposition") <= 1
      /\ CallCount(j, "voiceover") <= 1
      /\ CallCount(j, "image") <= MaxPanels
      /\ pc[j] \in {"l_image", "l_p4"} => CallCount(j, "image") <= Len(loc[j].panels)

\* A routes job finished after calling decomposition and voiceover twice and
\* the image capability twice for its one panel.
C27_CalledTwice ==
  \E j \in JobIds :
    /\ app = "routes" /\ pc[j] = "done"
    /\ Len(jobs[j].panels) = 1
    /\ CallCount(j, "story") = 1
    /\ CallCount(j, "decomposition") = 2
    /\ CallCount(j, "image") = 2
    /\ CallCount(j, "voiceover") = 2

\* The step counter of a Job Tracker entry, in both revisions.
StepOf(entry) ==
  IF "progress" \in DOMAIN entry THEN entry.progress ELSE entry.current_step

\* C28: the step counter of a job never decreases during a run and never
\* exceeds the declared total number of steps, also when the run fails.
C28_StepCounterMonotone ==
  [][\A j \in DOMAIN TrackerMap :
       /\ StepOf(TrackerMap'[j]) >= StepOf(TrackerMap[j])
       /\ "total_steps" \in DOMAIN TrackerMap'[j] =>
            StepOf(TrackerMap'[j]) <= TrackerMap'[j].total_steps]_vars

\* The part of C28 that the legacy task keeps: the counter stays within the
\* declared total, and it does not decrease while the run has not failed.
C28_LegacyWithinTotal ==
  [][\A j \in DOMAIN job_progress :
       /\ job_progress'[j].current_step <= job_progress'[j].total_steps
       /\ job_progress'[j].status # "error" =>
            job_progress'[j].current_step >= job_progress[j].current_step]_vars

\* A legacy run failed after its counter had advanced: the counter is back at 0.
C28_CounterResetOnFailure ==
  \E j \in DOMAIN job_progress :
    /\ pc[j] = "failed"
    /\ job_progress[j].status = "error"
    /\ job_progress[j].current_step = 0
    /\ CallCount(j, "image") > 0

\* The panel indices a client visits that starts at index i of job j and
\* follows next_index until a response carries none or is an error.
RECURSIVE FollowNext(_, _, _)
FollowNext(j, i, fuel) ==
  IF fuel = 0 \/ get_panel(j, i).code # 200
    THEN << >>
    ELSE <<i>> \o (IF get_panel(j, i).data.next_index = 0
                     THEN << >>
                     ELSE FollowNext(j, get_panel(j, i).data.next_index, fuel - 1))

\* C30: get_panel(job_id, i) on a job with T panels returns, for 1 <= i <= T,
\* panel i with prev_index i-1 (null exactly when i = 1) and next_index i+1
\* (null exactly when i = T), so following next_index from 1 visits 1..T once
\* each and stops; for i < 1 or i > T (every i when T = 0) it returns 400.
C30_PanelNavigation ==
  \A j \in DOMAIN jobs :
    LET T == Len(jobs[j].panels)
    IN /\ \A i \in 0..(MaxPanels + 2) :
            IF 1 <= i /\ i <= T
              THEN /\ get_panel(j, i).code = 200
                   /\ get_panel(j, i).data.panel_index = i
                   /\ get_panel(j, i).data.panel_url = jobs[j].panels[i].image_url
                   /\ jobs[j].panels[i].panel_number = i
                   /\ get_panel(j, i).data.total_panels = T
                   /\ get_panel(j, i).data.prev_index = (IF i = 1 THEN 0 ELSE i - 1)
                   /\ get_panel(j, i).data.next_index = (IF i = T THEN 0 ELSE i + 1)
              ELSE /\ get_panel(j, i).code = 400
                   /\ "data" \notin DOMAIN get_panel(j, i)
       /\ FollowNext(j, 1, MaxPanels + 2) = [k \in 1..T |-> k]

\* One tracked job has the most panels and another, tracked, has none.
C30_Witness ==
  \E j \in DOMAIN jobs : \E k \in DOMAIN jobs :
    /\ Len(jobs[j].panels) = MaxPanels
    /\ get_panel(j, MaxPanels).code = 200
    /\ get_panel(j, MaxPanels).data.next_index = 0
    /\ get_panel(j, 1).data.prev_index = 0
    /\ Len(jobs[k].panels) = 0
    /\ get_panel(k, 1).code = 400

\* C29: BlobContainerClientSingleton holds at most one client: a get_instance
\* call constructs a client only when none is stored, whatever the
\* interleaving, and every caller gets the stored one; when close_instance
\* returns, the stored client was closed once and the slot is cleared; a
\* later get_instance constructs a fresh client, never the closed one.
C29_SingleClient ==
  [][/\ created' # created =>
          /\ instance = NoClient
          /\ created' = created + 1
          /\ instance' = created'
          /\ closes'[instance'] = 0
     /\ instance # NoClient => instance' \in {instance, NoClient}
     /\ \A t \in Callers :
          held'[t] # held[t] => (held'[t] = instance' /\ instance' # NoClient)
     /\ (life = "closing" /\ life' = "stopped") =>
          (instance' = NoClient /\ closes'[instance] = 1)
     /\ \A c \in 1..MaxClients : closes'[c] <= 1
     /\ Cardinality({c \in 1..created' : closes'[c] = 0}) <= 1]_vars

\* The lifespan's client was closed and cleared, and both coroutines then got
\* the same fresh client.
C29_Witness ==
  /\ life = "stopped"
  /\ created = 2 /\ instance = 2
  /\ closes[1] = 1 /\ closes[2] = 0
  /\ \A t \in Callers : held[t] = 2
====
